---- MODULE Spec2Model ----
(***************************************************************************)
(* Model of the compress / decompress JSON tool:                           *)
(*   - CompressionService (compression.service.ts): analyzeData,           *)
(*     compressJsonSync, decompressJsonSync, processDataAsync;             *)
(*   - the worker endpoint (compression.worker.ts);                        *)
(* together with the two library facilities the code calls, lz-string's    *)
(* Base64 codec and the host's JSON.parse / JSON.stringify, modelled by    *)
(* what they compute.                                                      *)
(*                                                                         *)
(* A text is a sequence of UTF-16 code units (naturals).  An operator      *)
(* whose name ends in a step word (...Next, ...With, ...From) continues    *)
(* the operator before it with a value that operator has computed.         *)
(***************************************************************************)
EXTENDS Integers, Sequences, FiniteSets, TLC

(***************************************************************************)
(* Text helpers                                                            *)
(***************************************************************************)

\* "undefined", as JavaScript's string concatenation renders the value
UndefinedText == <<117, 110, 100, 101, 102, 105, 110, 101, 100>>

RECURSIVE Pow2(_)
Pow2(n) == IF n = 0 THEN 1 ELSE 2 * Pow2(n - 1)

\* String.prototype.trim's white space: WhiteSpace and LineTerminator
IsJsWhiteSpace(c) ==
    \/ c \in {9, 10, 11, 12, 13, 32, 160, 5760, 8232, 8233, 8239, 8287, 12288, 65279}
    \/ (c >= 8192 /\ c <= 8202)

RECURSIVE TrimStart(_)
TrimStart(s) ==
    IF s # <<>> /\ IsJsWhiteSpace(Head(s)) THEN TrimStart(Tail(s)) ELSE s

RECURSIVE TrimEnd(_)
TrimEnd(s) ==
    IF s # <<>> /\ IsJsWhiteSpace(s[Len(s)])
    THEN TrimEnd(SubSeq(s, 1, Len(s) - 1)) ELSE s

\* input.trim()
Trim(s) == TrimEnd(TrimStart(s))

(***************************************************************************)
(* lz-string: the Base64 alphabet                                          *)
(***************************************************************************)

\* bits carried by one character of the Base64 output
BitsPerChar == 6

\* what an absent table entry reads as
Undefined == -1

\* keyStrBase64.charAt(a) for a in 0..63
GetCharFromInt(a) ==
    IF a < 26 THEN 65 + a
    ELSE IF a < 52 THEN 97 + (a - 26)
    ELSE IF a < 62 THEN 48 + (a - 52)
    ELSE IF a = 62 THEN 43 ELSE 47

\* a variant of the decoder's table: the alphabet of the URI-safe encoding,
\* whose last two characters are '-' and '_' where base64 has '+' and '/'
GetBaseValueUriSafe(c) ==
    IF c >= 65 /\ c <= 90 THEN c - 65
    ELSE IF c >= 97 /\ c <= 122 THEN c - 71
    ELSE IF c >= 48 /\ c <= 57 THEN c + 4
    ELSE IF c = 45 THEN 62
    ELSE IF c = 95 THEN 63
    ELSE IF c = 61 THEN 64
    ELSE Undefined

\* getBaseValue(keyStrBase64, character): the character's index in
\* "ABC...XYZabc...xyz0123456789+/=", undefined for any other character
GetBaseValue(c) ==
    IF c >= 65 /\ c <= 90 THEN c - 65
    ELSE IF c >= 97 /\ c <= 122 THEN c - 71
    ELSE IF c >= 48 /\ c <= 57 THEN c + 4
    ELSE IF c = 43 THEN 62
    ELSE IF c = 47 THEN 63
    ELSE IF c = 61 THEN 64
    ELSE Undefined

\* getNextValue(index): input.charAt(index) is "" past the end (0-based index)
GetNextValue(input, index) ==
    IF index < Len(input) THEN GetBaseValue(input[index + 1]) ELSE Undefined

\* (val & position) > 0 ? 1 : 0, position a power of two; undefined & x is 0
BitAt(val, position) ==
    IF val = Undefined THEN 0 ELSE (val \div position) % 2

(***************************************************************************)
(* lz-string: _decompress(length, 32, getNextValue)                        *)
(***************************************************************************)

\* the reader's state after construction: {val, position, index}
DataInit(input) ==
    [val |-> GetNextValue(input, 0), position |-> Pow2(BitsPerChar - 1), index |-> 1]

\* data.position >>= 1; at 0 the position is reset and the next character fetched
Advance(input, data) ==
    IF data.position = 1
    THEN [val      |-> GetNextValue(input, data.index),
          position |-> Pow2(BitsPerChar - 1),
          index    |-> data.index + 1]
    ELSE [data EXCEPT !.position = data.position \div 2]

\* while (power != maxpower) { resb = data.val & data.position; ...;
\*                             bits |= (resb > 0 ? 1 : 0) * power; power <<= 1; }
\* with n turns left
RECURSIVE ReadBitsFrom(_, _, _, _, _)
ReadBitsFrom(input, data, n, power, bits) ==
    IF n = 0 THEN [bits |-> bits, data |-> data]
    ELSE ReadBitsFrom(input, Advance(input, data), n - 1, 2 * power,
                      bits + BitAt(data.val, data.position) * power)

ReadBits(input, data, n) == ReadBitsFrom(input, data, n, 1, 0)

\* outcomes of the decoder: a text, null, or a thrown TypeError
DecodedText(s) == [kind |-> "text", s |-> s]
DecodedNull == [kind |-> "null", s |-> <<>>]
DecodedThrow == [kind |-> "throw", s |-> <<>>]

\* a dictionary slot or `w`: a string, or undefined
JsStr(s) == [undef |-> FALSE, s |-> s]
JsUndef == [undef |-> TRUE, s |-> <<>>]
\* the value as string concatenation sees it
AsText(x) == IF x.undef THEN UndefinedText ELSE x.s
\* the value as result.join('') sees it
AsJoined(x) == IF x.undef THEN <<>> ELSE x.s

\* dictionary[c] for c >= 3 (slots 0..2 hold numbers and are never looked up)
DictAt(dict, c) == IF c - 2 <= Len(dict) THEN dict[c - 2] ELSE JsUndef

\* a variant of the decoder: the code width grows one entry late
EnlargeLate(st) ==
    IF st.enlargeIn < 0
    THEN [st EXCEPT !.enlargeIn = Pow2(st.numBits), !.numBits = st.numBits + 1]
    ELSE st

\* if (enlargeIn == 0) { enlargeIn = Math.pow(2, numBits); numBits++; }
Enlarge(st) ==
    IF st.enlargeIn = 0
    THEN [st EXCEPT !.enlargeIn = Pow2(st.numBits), !.numBits = st.numBits + 1]
    ELSE st

\* cases 0 and 1 of switch (c = bits): the character read is a new
\* dictionary entry and c its index
TakeLiteral(st, lit) ==
    [st EXCEPT !.dict = Append(st.dict, JsStr(<<lit.bits>>)),
               !.enlargeIn = st.enlargeIn - 1,
               !.data = lit.data,
               !.c = Len(st.dict) + 3]

\* the state after the switch: st.dict holds slots 3, 4, ...
AfterSwitch(input, st, code) ==
    IF code.bits = 0 THEN TakeLiteral(st, ReadBits(input, code.data, 8))
    ELSE IF code.bits = 1 THEN TakeLiteral(st, ReadBits(input, code.data, 16))
    ELSE [st EXCEPT !.data = code.data, !.c = code.bits]

\* result.push(entry); dictionary[dictSize++] = w + entry.charAt(0);
\* enlargeIn--; w = entry; and the enlargement that ends the turn
PushEntry(st, entry) ==
    Enlarge([st EXCEPT !.result = st.result \o entry,
                       !.dict = Append(st.dict, JsStr(AsText(st.w) \o <<Head(entry)>>)),
                       !.enlargeIn = st.enlargeIn - 1,
                       !.w = JsStr(entry)])

\* the loop is running, or it has returned or thrown
Running == [kind |-> "run", s |-> <<>>]
Finish(st, outcome) == [st EXCEPT !.out = outcome]

\* if (dictionary[c]) entry = dictionary[c];
\* else if (c === dictSize) entry = w + w.charAt(0); else return null;
DecompressEntry(st, found) ==
    IF ~found.undef THEN PushEntry(st, found.s)
    ELSE IF st.c # Len(st.dict) + 3 THEN Finish(st, DecodedNull)
    ELSE IF st.w.undef THEN Finish(st, DecodedThrow)   \* w.charAt of undefined
    ELSE PushEntry(st, st.w.s \o <<Head(st.w.s)>>)

DecompressLookup(st) == DecompressEntry(st, DictAt(st.dict, st.c))

\* case 2 of the switch ends the stream
DecompressCode(input, st, code) ==
    IF code.bits = 2 THEN Finish(st, DecodedText(st.result))
    ELSE DecompressLookup(Enlarge(AfterSwitch(input, st, code)))

\* one turn of while (true)
DecompressTurn(input, st) ==
    IF st.data.index > Len(input) THEN Finish(st, DecodedText(<<>>))
    ELSE DecompressCode(input, st, ReadBits(input, st.data, st.numBits))

\* while (true), until a turn returns or throws
RECURSIVE DecompressLoop(_, _)
DecompressLoop(input, st) ==
    IF st.out.kind # "run" THEN st.out
    ELSE DecompressLoop(input, DecompressTurn(input, st))

\* the first entry: c is a character, or stays undefined when the first
\* code is 3, for which the switch has no case
DecompressStart(input, c, data) ==
    DecompressLoop(input,
        [dict |-> <<c>>, enlargeIn |-> 4, numBits |-> 3, c |-> 0,
         w |-> c, result |-> AsJoined(c), data |-> data, out |-> Running])

DecompressFirstLiteral(input, lit) ==
    DecompressStart(input, JsStr(<<lit.bits>>), lit.data)

DecompressFirst(input, next) ==
    IF next.bits = 0 THEN DecompressFirstLiteral(input, ReadBits(input, next.data, 8))
    ELSE IF next.bits = 1 THEN DecompressFirstLiteral(input, ReadBits(input, next.data, 16))
    ELSE IF next.bits = 2 THEN DecodedText(<<>>)
    ELSE DecompressStart(input, JsUndef, next.data)

\* LZString._decompress, called with resetValue 32 and the Base64 reader
Decompress(input) == DecompressFirst(input, ReadBits(input, DataInit(input), 2))

\* LZString.decompressFromBase64(input), input a string
DecompressFromBase64(input) ==
    IF input = <<>> THEN DecodedNull ELSE Decompress(input)

(***************************************************************************)
(* lz-string: _compress(uncompressed, 6, getCharFromInt)                   *)
(*                                                                         *)
(* The context keeps the dictionary as the sequence of its keys in the     *)
(* order they were given codes (the first key has code 3), and the bits    *)
(* written so far; the bits are cut into characters when the stream ends.  *)
(***************************************************************************)

\* value & 1, value >> 1, ... for n turns: the low n bits, lowest first
RECURSIVE LowBits(_, _)
LowBits(value, n) ==
    IF n = 0 THEN <<>> ELSE <<value % 2>> \o LowBits(value \div 2, n - 1)

\* context_dictionary[key], for a key the dictionary holds
RECURSIVE CodeOf(_, _, _)
CodeOf(dict, key, i) ==
    IF dict[i] = key THEN i + 2 ELSE CodeOf(dict, key, i + 1)

\* Object.prototype.hasOwnProperty.call(context_dictionary, key)
HasKey(dict, key) == \E i \in 1..Len(dict) : dict[i] = key

\* context_enlargeIn--; if (context_enlargeIn == 0) { ... context_numBits++ }
CtxEnlarge(ctx) ==
    IF ctx.enlargeIn = 1
    THEN [ctx EXCEPT !.enlargeIn = Pow2(ctx.numBits), !.numBits = ctx.numBits + 1]
    ELSE [ctx EXCEPT !.enlargeIn = ctx.enlargeIn - 1]

\* a first occurrence: a marker of numBits bits (0 for an 8-bit character,
\* 1 for a 16-bit one) and the character itself
LiteralBits(ch, numBits) ==
    IF ch < 256 THEN LowBits(0, numBits) \o LowBits(ch, 8)
    ELSE LowBits(1, numBits) \o LowBits(ch, 16)

\* write the code for context_w: a first occurrence as a literal, after
\* which the key leaves context_dictionaryToCreate; anything else as its
\* dictionary code
EmitW(ctx) ==
    IF ctx.w \in ctx.toCreate
    THEN CtxEnlarge(CtxEnlarge(
             [ctx EXCEPT !.bits = ctx.bits \o LiteralBits(Head(ctx.w), ctx.numBits),
                         !.toCreate = ctx.toCreate \ {ctx.w}]))
    ELSE CtxEnlarge(
             [ctx EXCEPT !.bits = ctx.bits \o LowBits(CodeOf(ctx.dict, ctx.w, 1), ctx.numBits)])

\* context_dictionary[context_c] = context_dictSize++;
\* context_dictionaryToCreate[context_c] = true
NoteChar(ctx, c) ==
    [ctx EXCEPT !.dict = Append(ctx.dict, c), !.toCreate = ctx.toCreate \cup {c}]

\* context_dictionary[context_wc] = context_dictSize++; context_w = String(context_c)
AddPhrase(ctx, wc, c) == [ctx EXCEPT !.dict = Append(ctx.dict, wc), !.w = c]

\* the rest of one turn of the for loop, the character noted
ExtendOrEmit(ctx, c) ==
    IF HasKey(ctx.dict, ctx.w \o c) THEN [ctx EXCEPT !.w = ctx.w \o c]
    ELSE AddPhrase(EmitW(ctx), ctx.w \o c, c)

\* for (ii = 0; ii < uncompressed.length; ii += 1): a character seen for the
\* first time gets a code and is marked to create
RECURSIVE CompressLoop(_, _, _)
CompressLoop(uncompressed, ii, ctx) ==
    IF ii > Len(uncompressed) THEN ctx
    ELSE IF HasKey(ctx.dict, <<uncompressed[ii]>>)
    THEN CompressLoop(uncompressed, ii + 1, ExtendOrEmit(ctx, <<uncompressed[ii]>>))
    ELSE CompressLoop(uncompressed, ii + 1,
             ExtendOrEmit(NoteChar(ctx, <<uncompressed[ii]>>), <<uncompressed[ii]>>))

\* the value of the bits of one output character, first bit highest
RECURSIVE BitsValue(_, _, _)
BitsValue(bs, i, acc) ==
    IF i > BitsPerChar THEN acc ELSE BitsValue(bs, i + 1, 2 * acc + bs[i])

\* context_data.join(''): the bit stream cut into characters
RECURSIVE PackChars(_)
PackChars(bs) ==
    IF bs = <<>> THEN <<>>
    ELSE <<GetCharFromInt(BitsValue(bs, 1, 0))>>
         \o PackChars(SubSeq(bs, BitsPerChar + 1, Len(bs)))

\* "Flush the last char": zeros are shifted in until a character is pushed,
\* a whole character of zeros when none is pending
Flush(bs) == bs \o LowBits(0, BitsPerChar - (Len(bs) % BitsPerChar))

\* "Output the code for w" when w is not empty
EmitLast(ctx) == IF ctx.w # <<>> THEN EmitW(ctx) ELSE ctx

\* "Mark the end of the stream": the code 2
EndOfStream(ctx) == ctx.bits \o LowBits(2, ctx.numBits)

\* LZString._compress(uncompressed, 6, getCharFromInt), uncompressed a string
Compress(uncompressed) ==
    PackChars(Flush(EndOfStream(EmitLast(
        CompressLoop(uncompressed, 1,
            [dict |-> <<>>, toCreate |-> {}, w |-> <<>>,
             enlargeIn |-> 2, numBits |-> 2, bits |-> <<>>])))))

\* "To produce valid Base64": '=' up to a multiple of 4 characters
PadBase64(res) ==
    CASE Len(res) % 4 = 0 -> res
      [] Len(res) % 4 = 1 -> res \o <<61, 61, 61>>
      [] Len(res) % 4 = 2 -> res \o <<61, 61>>
      [] Len(res) % 4 = 3 -> res \o <<61>>

\* LZString.compressToBase64(input), input a string
CompressToBase64(input) == PadBase64(Compress(input))

(***************************************************************************)
(* JSON values.  Every value is a record of one shape:                     *)
(*   t      "null", "bool", "num", "inf", "str", "arr" or "obj"            *)
(*   b      the boolean                                                    *)
(*   neg, digits, n   the number (-1)^neg * 0.d1 d2 ... dk * 10^n, digits  *)
(*          without leading or trailing zeros (none at all for zero);      *)
(*          "inf" is the Infinity a literal beyond the double range gives  *)
(*   s      the string's code units                                        *)
(*   keys, items   an object's keys and values in enumeration order, or    *)
(*          an array's items                                               *)
(* Numbers are kept as exact decimals: this is the double the host holds   *)
(* for literals of up to 15 significant digits outside the subnormal       *)
(* range.                                                                  *)
(***************************************************************************)

JNull == [t |-> "null", b |-> FALSE, neg |-> FALSE, digits |-> <<>>, n |-> 0,
          s |-> <<>>, keys |-> <<>>, items |-> <<>>]
JBool(b) == [JNull EXCEPT !.t = "bool", !.b = b]
JStr(s) == [JNull EXCEPT !.t = "str", !.s = s]
JArr(items) == [JNull EXCEPT !.t = "arr", !.items = items]
JObj(keys, items) == [JNull EXCEPT !.t = "obj", !.keys = keys, !.items = items]
JZero == [JNull EXCEPT !.t = "num"]
JNumber(neg, digits, n) == [JNull EXCEPT !.t = "num", !.neg = neg, !.digits = digits, !.n = n]
JInfinity(neg) == [JNull EXCEPT !.t = "inf", !.neg = neg]

\* typeof parsed === 'object' && parsed !== null
IsComposite(v) == v.t \in {"arr", "obj"}

IsDigit(c) == c >= 48 /\ c <= 57

RECURSIVE StripLeadingZeros(_)
StripLeadingZeros(ds) ==
    IF ds # <<>> /\ Head(ds) = 0 THEN StripLeadingZeros(Tail(ds)) ELSE ds

RECURSIVE StripTrailingZeros(_)
StripTrailingZeros(ds) ==
    IF ds # <<>> /\ ds[Len(ds)] = 0
    THEN StripTrailingZeros(SubSeq(ds, 1, Len(ds) - 1)) ELSE ds

\* a < b for digit sequences of one length
RECURSIVE DigitsLess(_, _)
DigitsLess(a, b) ==
    IF a = <<>> THEN FALSE
    ELSE IF Head(a) # Head(b) THEN Head(a) < Head(b)
    ELSE DigitsLess(Tail(a), Tail(b))

\* the first 15 digits of the least decimal that rounds to Infinity,
\* 1.7976931348623158e308
OverflowDigits == <<1, 7, 9, 7, 6, 9, 3, 1, 3, 4, 8, 6, 2, 3, 2>>

PadDigits(ds, k) ==
    [i \in 1..k |-> IF i <= Len(ds) THEN ds[i] ELSE 0]

\* the Number of sign, digits (no leading zero) and power of ten n
RoundNumber(neg, lead, n) ==
    IF StripTrailingZeros(lead) = <<>> THEN JZero
    ELSE IF n > 309 \/ (n = 309 /\ ~DigitsLess(PadDigits(lead, 15), OverflowDigits))
         THEN JInfinity(neg)
    ELSE IF n < -323 THEN JZero
    ELSE JNumber(neg, StripTrailingZeros(lead), n)

\* the Number a decimal literal denotes: its sign, all its digits, and the
\* power of ten of the position just left of the first digit
MakeNumber(neg, rawDigits, rawN) ==
    RoundNumber(neg, StripLeadingZeros(rawDigits),
                rawN - (Len(rawDigits) - Len(StripLeadingZeros(rawDigits))))

(***************************************************************************)
(* JSON.parse(text)                                                        *)
(***************************************************************************)

ParseFail == [ok |-> FALSE, v |-> JNull, pos |-> 0]
ParseOk(v, pos) == [ok |-> TRUE, v |-> v, pos |-> pos]

\* JSON white space: tab, line feed, carriage return, space
IsJsonWs(c) == c \in {9, 10, 13, 32}

RECURSIVE SkipWs(_, _)
SkipWs(s, i) ==
    IF i <= Len(s) /\ IsJsonWs(s[i]) THEN SkipWs(s, i + 1) ELSE i

\* the position after the run of digits that starts at i
RECURSIVE DigitsEnd(_, _)
DigitsEnd(s, i) ==
    IF i <= Len(s) /\ IsDigit(s[i]) THEN DigitsEnd(s, i + 1) ELSE i

\* the digits at positions i .. j-1
DigitValues(s, i, j) == [k \in 1..(j - i) |-> s[i + k - 1] - 48]

\* the value of an exponent's digits, saturating far beyond the double range
ExponentCap == 100000
RECURSIVE ExponentValue(_, _)
ExponentValue(ds, acc) ==
    IF ds = <<>> THEN acc
    ELSE ExponentValue(Tail(ds),
             IF acc * 10 + Head(ds) > ExponentCap THEN ExponentCap
             ELSE acc * 10 + Head(ds))

\* the exponent part ends at j4: digits from j3, negative or not
NumberExponent(s, neg, digits, point, negExp, j3, j4) ==
    IF j4 = j3 THEN ParseFail
    ELSE ParseOk(MakeNumber(neg, digits,
                     IF negExp THEN point - ExponentValue(DigitValues(s, j3, j4), 0)
                     ELSE point + ExponentValue(DigitValues(s, j3, j4), 0)), j4)

\* the digits read, the exponent: ([eE] [+-]? [0-9]+)?  from position j2
NumberTail(s, neg, digits, point, j2) ==
    IF j2 <= Len(s) /\ s[j2] \in {101, 69}
    THEN IF j2 + 1 <= Len(s) /\ s[j2 + 1] \in {43, 45}
         THEN NumberExponent(s, neg, digits, point, s[j2 + 1] = 45,
                             j2 + 2, DigitsEnd(s, j2 + 2))
         ELSE NumberExponent(s, neg, digits, point, FALSE, j2 + 1, DigitsEnd(s, j2 + 1))
    ELSE ParseOk(MakeNumber(neg, digits, point), j2)

\* the fraction, after the point at j1, ends at j2
NumberFraction(s, neg, j0, j1, j2) ==
    IF j2 = j1 + 1 THEN ParseFail
    ELSE NumberTail(s, neg, DigitValues(s, j0, j1) \o DigitValues(s, j1 + 1, j2),
                    j1 - j0, j2)

\* the integer part is at j0 .. j1-1, the fraction: (. [0-9]+)?
NumberInteger(s, neg, j0, j1) ==
    IF j1 <= Len(s) /\ s[j1] = 46
    THEN NumberFraction(s, neg, j0, j1, DigitsEnd(s, j1 + 1))
    ELSE NumberTail(s, neg, DigitValues(s, j0, j1), j1 - j0, j1)

\* the sign read, the integer part: 0 | [1-9][0-9]*  from position j0
NumberDigits(s, neg, j0) ==
    IF j0 > Len(s) \/ ~IsDigit(s[j0]) THEN ParseFail
    ELSE NumberInteger(s, neg, j0, IF s[j0] = 48 THEN j0 + 1 ELSE DigitsEnd(s, j0))

\* number: -? (0 | [1-9][0-9]*) (. [0-9]+)? ([eE] [+-]? [0-9]+)?
ParseNumber(s, i) ==
    IF s[i] = 45 THEN NumberDigits(s, TRUE, i + 1) ELSE NumberDigits(s, FALSE, i)

IsHexDigit(c) == IsDigit(c) \/ (c >= 65 /\ c <= 70) \/ (c >= 97 /\ c <= 102)
HexValue(c) == IF IsDigit(c) THEN c - 48 ELSE IF c >= 97 THEN c - 87 ELSE c - 55

\* the character an escape letter stands for: " \ / b f n r t
Unescape(e) ==
    CASE e = 98 -> 8 [] e = 102 -> 12 [] e = 110 -> 10 [] e = 114 -> 13
      [] e = 116 -> 9 [] OTHER -> e

\* the characters of a string after its opening quote
RECURSIVE ParseStringBody(_, _, _)
ParseStringBody(s, i, acc) ==
    IF i > Len(s) THEN ParseFail
    ELSE IF s[i] = 34 THEN ParseOk(JStr(acc), i + 1)
    ELSE IF s[i] < 32 THEN ParseFail
    ELSE IF s[i] # 92 THEN ParseStringBody(s, i + 1, Append(acc, s[i]))
    ELSE IF i + 1 > Len(s) THEN ParseFail
    ELSE IF s[i + 1] \in {34, 92, 47, 98, 102, 110, 114, 116}
         THEN ParseStringBody(s, i + 2, Append(acc, Unescape(s[i + 1])))
    ELSE IF s[i + 1] = 117 /\ i + 5 <= Len(s)
            /\ \A k \in 2..5 : IsHexDigit(s[i + k])
         THEN ParseStringBody(s, i + 6,
                  Append(acc, 4096 * HexValue(s[i + 2]) + 256 * HexValue(s[i + 3])
                              + 16 * HexValue(s[i + 4]) + HexValue(s[i + 5])))
    ELSE ParseFail

\* whether the text from i on starts with the word w
StartsWith(s, i, w) ==
    i + Len(w) - 1 <= Len(s) /\ SubSeq(s, i, i + Len(w) - 1) = w

\* a property key that is an array index: a canonical integer below 2^32 - 1
IsIndexKey(k) ==
    /\ k # <<>>
    /\ \A i \in 1..Len(k) : IsDigit(k[i])
    /\ (Len(k) > 1 => k[1] # 48)
    /\ \/ Len(k) < 10
       \/ Len(k) = 10 /\ DigitsLess(k, <<52, 50, 57, 52, 57, 54, 55, 50, 57, 53>>)

\* numeric order of two index keys
IndexLess(a, b) == Len(a) < Len(b) \/ (Len(a) = Len(b) /\ DigitsLess(a, b))

\* where a new key goes in the enumeration order: index keys ascending
\* first, then the other keys in the order they were created
InsertAt(keys, k) ==
    IF IsIndexKey(k)
    THEN 1 + Cardinality({i \in 1..Len(keys) : IsIndexKey(keys[i]) /\ IndexLess(keys[i], k)})
    ELSE Len(keys) + 1

InsertSeq(q, at, e) == SubSeq(q, 1, at - 1) \o <<e>> \o SubSeq(q, at, Len(q))

AddMember(obj, k, v, at) ==
    [obj EXCEPT !.keys = InsertSeq(obj.keys, at, k), !.items = InsertSeq(obj.items, at, v)]

\* CreateDataProperty(obj, key, value): a repeated key keeps its place and
\* takes the later value
SetMember(obj, k, v) ==
    IF \E i \in 1..Len(obj.keys) : obj.keys[i] = k
    THEN [obj EXCEPT !.items[CHOOSE i \in 1..Len(obj.keys) : obj.keys[i] = k] = v]
    ELSE AddMember(obj, k, v, InsertAt(obj.keys, k))

RECURSIVE ParseValue(_, _)
RECURSIVE ParseElements(_, _, _)
RECURSIVE ParseMembers(_, _, _)

\* an element parsed, at j: a comma and the next element, or the bracket
ElementsAfter(s, acc, r, j) ==
    IF j > Len(s) THEN ParseFail
    ELSE IF s[j] = 44 THEN ParseElements(s, SkipWs(s, j + 1), Append(acc, r.v))
    ELSE IF s[j] = 93 THEN ParseOk(JArr(Append(acc, r.v)), j + 1)
    ELSE ParseFail

ElementsWith(s, acc, r) ==
    IF ~r.ok THEN ParseFail ELSE ElementsAfter(s, acc, r, SkipWs(s, r.pos))

\* the elements of an array, i at the first character of an element
ParseElements(s, i, acc) == ElementsWith(s, acc, ParseValue(s, i))

\* a member parsed, at j: a comma and the next member, or the brace
MembersAfter(s, obj, j) ==
    IF j > Len(s) THEN ParseFail
    ELSE IF s[j] = 44 THEN ParseMembers(s, SkipWs(s, j + 1), obj)
    ELSE IF s[j] = 125 THEN ParseOk(obj, j + 1)
    ELSE ParseFail

MemberWith(s, obj, k, r) ==
    IF ~r.ok THEN ParseFail
    ELSE MembersAfter(s, SetMember(obj, k, r.v), SkipWs(s, r.pos))

\* the key parsed, at c: the colon and the value
MemberColon(s, obj, k, c) ==
    IF c > Len(s) \/ s[c] # 58 THEN ParseFail
    ELSE MemberWith(s, obj, k, ParseValue(s, SkipWs(s, c + 1)))

MemberKey(s, obj, k) ==
    IF ~k.ok THEN ParseFail ELSE MemberColon(s, obj, k.v.s, SkipWs(s, k.pos))

\* the members of an object, i at the first character of a key
ParseMembers(s, i, obj) ==
    IF i > Len(s) \/ s[i] # 34 THEN ParseFail
    ELSE MemberKey(s, obj, ParseStringBody(s, i + 1, <<>>))

\* after '{' and white space, at j
ObjectFrom(s, j) ==
    IF j <= Len(s) /\ s[j] = 125 THEN ParseOk(JObj(<<>>, <<>>), j + 1)
    ELSE ParseMembers(s, j, JObj(<<>>, <<>>))

\* after '[' and white space, at j
ArrayFrom(s, j) ==
    IF j <= Len(s) /\ s[j] = 93 THEN ParseOk(JArr(<<>>), j + 1)
    ELSE ParseElements(s, j, <<>>)

\* one value, i at its first character
ParseValue(s, i) ==
    IF i > Len(s) THEN ParseFail
    ELSE IF s[i] = 123 THEN ObjectFrom(s, SkipWs(s, i + 1))
    ELSE IF s[i] = 91 THEN ArrayFrom(s, SkipWs(s, i + 1))
    ELSE IF s[i] = 34 THEN ParseStringBody(s, i + 1, <<>>)
    ELSE IF s[i] = 45 \/ IsDigit(s[i]) THEN ParseNumber(s, i)
    ELSE IF StartsWith(s, i, <<116, 114, 117, 101>>) THEN ParseOk(JBool(TRUE), i + 4)
    ELSE IF StartsWith(s, i, <<102, 97, 108, 115, 101>>) THEN ParseOk(JBool(FALSE), i + 5)
    ELSE IF StartsWith(s, i, <<110, 117, 108, 108>>) THEN ParseOk(JNull, i + 4)
    ELSE ParseFail

\* the value parsed: only white space may follow
ParseEnd(text, r) ==
    IF r.ok /\ SkipWs(text, r.pos) = Len(text) + 1
    THEN [ok |-> TRUE, v |-> r.v]
    ELSE [ok |-> FALSE, v |-> JNull]

\* JSON.parse(text): ok with the value, or not ok (a SyntaxError is thrown)
JsonParse(text) == ParseEnd(text, ParseValue(text, SkipWs(text, 1)))

(***************************************************************************)
(* JSON.stringify(value) and JSON.stringify(value, null, 2)                *)
(***************************************************************************)

HexDigit(d) == IF d < 10 THEN 48 + d ELSE 87 + d

\* \uXXXX with lower-case hexadecimal digits
UnicodeEscape(c) ==
    <<92, 117, HexDigit(c \div 4096), HexDigit((c \div 256) % 16),
      HexDigit((c \div 16) % 16), HexDigit(c % 16)>>

IsLeadSurrogate(c) == c >= 55296 /\ c <= 56319
IsTrailSurrogate(c) == c >= 56320 /\ c <= 57343

\* one code unit that is not half of a surrogate pair, quoted
QuoteUnit(c) ==
    CASE c = 8  -> <<92, 98>>
      [] c = 9  -> <<92, 116>>
      [] c = 10 -> <<92, 110>>
      [] c = 12 -> <<92, 102>>
      [] c = 13 -> <<92, 114>>
      [] c = 34 -> <<92, 34>>
      [] c = 92 -> <<92, 92>>
      [] c < 32 /\ c \notin {8, 9, 10, 12, 13} -> UnicodeEscape(c)
      [] IsLeadSurrogate(c) \/ IsTrailSurrogate(c) -> UnicodeEscape(c)
      [] OTHER -> <<c>>

\* QuoteJSONString without the surrounding quotes
RECURSIVE QuoteBody(_, _)
QuoteBody(s, i) ==
    IF i > Len(s) THEN <<>>
    ELSE IF IsLeadSurrogate(s[i]) /\ i < Len(s) /\ IsTrailSurrogate(s[i + 1])
         THEN <<s[i], s[i + 1]>> \o QuoteBody(s, i + 2)
    ELSE QuoteUnit(s[i]) \o QuoteBody(s, i + 1)

QuoteJSONString(s) == <<34>> \o QuoteBody(s, 1) \o <<34>>

DigitChars(ds) == [i \in 1..Len(ds) |-> 48 + ds[i]]

\* the decimal digits of a natural number
RECURSIVE NatText(_)
NatText(k) == IF k < 10 THEN <<48 + k>> ELSE NatText(k \div 10) \o <<48 + (k % 10)>>

Zeros(k) == [i \in 1..k |-> 48]

\* the exponent part e+x or e-x, for the exponent x = n - 1
ExponentText(e) ==
    <<101>> \o (IF e < 0 THEN <<45>> \o NatText(0 - e) ELSE <<43>> \o NatText(e))

\* Number::toString of a positive finite number with the k digits ds,
\* n as in the language definition
DigitsToString(ds, k, n) ==
    IF k <= n /\ n <= 21 THEN ds \o Zeros(n - k)
    ELSE IF 0 < n /\ n <= 21 THEN SubSeq(ds, 1, n) \o <<46>> \o SubSeq(ds, n + 1, k)
    ELSE IF -6 < n /\ n <= 0 THEN <<48, 46>> \o Zeros(0 - n) \o ds
    ELSE (IF k = 1 THEN ds ELSE <<ds[1], 46>> \o Tail(ds)) \o ExponentText(n - 1)

\* Number::toString of a finite number
NumberToString(v) ==
    IF v.digits = <<>> THEN <<48>>
    ELSE (IF v.neg THEN <<45>> ELSE <<>>)
         \o DigitsToString(DigitChars(v.digits), Len(v.digits), v.n)

Spaces(k) == [i \in 1..k |-> 32]

\* the line break and indentation before an item, none in the compact form
Indent(gap, depth) == IF gap > 0 THEN <<10>> \o Spaces(gap * depth) ELSE <<>>

\* the key of an object's member and its colon
KeyText(v, i, gap) ==
    IF v.t = "obj"
    THEN QuoteJSONString(v.keys[i]) \o <<58>> \o (IF gap > 0 THEN <<32>> ELSE <<>>)
    ELSE <<>>

\* SerializeJSONProperty with the gap of `gap` spaces per level, at nesting
\* depth `depth`; gap 0 is the compact form
RECURSIVE Serialize(_, _, _)
RECURSIVE SerializeItems(_, _, _, _)
SerializeItems(v, i, gap, depth) ==
    IF i > Len(v.items) THEN <<>>
    ELSE (IF i > 1 THEN <<44>> ELSE <<>>)
         \o Indent(gap, depth)
         \o KeyText(v, i, gap)
         \o Serialize(v.items[i], gap, depth)
         \o SerializeItems(v, i + 1, gap, depth)

Serialize(v, gap, depth) ==
    CASE v.t = "null" -> <<110, 117, 108, 108>>
      [] v.t = "bool" -> IF v.b THEN <<116, 114, 117, 101>> ELSE <<102, 97, 108, 115, 101>>
      [] v.t = "num"  -> NumberToString(v)
      [] v.t = "inf"  -> <<110, 117, 108, 108>>
      [] v.t = "str"  -> QuoteJSONString(v.s)
      [] v.t = "arr"  ->
            IF v.items = <<>> THEN <<91, 93>>
            ELSE <<91>> \o SerializeItems(v, 1, gap, depth + 1) \o Indent(gap, depth) \o <<93>>
      [] v.t = "obj"  ->
            IF v.items = <<>> THEN <<123, 125>>
            ELSE <<123>> \o SerializeItems(v, 1, gap, depth + 1) \o Indent(gap, depth) \o <<125>>

\* JSON.stringify(value)
JsonStringify(v) == Serialize(v, 0, 0)

\* JSON.stringify(value, null, 2)
JsonStringifyPretty(v) == Serialize(v, 2, 0)

(***************************************************************************)
(* The transforms, as the two execution sites compute them                 *)
(***************************************************************************)

\* the reason strings: a message, and for the host's SyntaxError the text the
\* parser was given (the message is a function of that text)
Reason(msg) == [msg |-> msg, about |-> <<>>]
SyntaxError(text) == [msg |-> "SyntaxError: not valid JSON", about |-> text]
TypeErrorCharAt == Reason("TypeError: cannot read properties of undefined (reading 'charAt')")
NoReason == Reason("")

\* the result of running a transform: a text, or a thrown error's message
Returned(text) == [ok |-> TRUE, text |-> text, error |-> NoReason]
Thrown(reason) == [ok |-> FALSE, text |-> <<>>, error |-> reason]

\* e.message || fallback
MessageOr(reason, fallback) == IF reason.msg = "" THEN Reason(fallback) ELSE reason

\* compressJsonSync(jsonObject)
CompressJsonSync(jsonObject) == CompressToBase64(JsonStringify(jsonObject))

\* JSON.stringify(JSON.parse(jsonString), null, 2), the text parsed
FormatParsed(jsonString, parsed) ==
    IF ~parsed.ok THEN Thrown(SyntaxError(jsonString))
    ELSE Returned(JsonStringifyPretty(parsed.v))

\* decompressJsonSync, the decoder having answered
DecompressJsonSyncWith(jsonString) ==
    IF jsonString.kind = "throw" THEN Thrown(TypeErrorCharAt)
    ELSE IF jsonString.kind = "null"
         THEN Thrown(Reason("Decompression returned no data or failed."))
    ELSE FormatParsed(jsonString.s, JsonParse(jsonString.s))

\* decompressJsonSync(compressedString)
DecompressJsonSync(compressedString) ==
    DecompressJsonSyncWith(DecompressFromBase64(compressedString))

\* a variant of the inline compress: the payload is encoded as it came,
\* whether or not it parsed
InlineCompressUnparsed(data, jsonObject) == Returned(CompressToBase64(data))

\* resolve(this.compressJsonSync(jsonObject)), the payload parsed
InlineCompressWith(data, jsonObject) ==
    IF ~jsonObject.ok THEN Thrown(SyntaxError(data))
    ELSE Returned(CompressJsonSync(jsonObject.v))

\* the body of the try block of the setTimeout callback
InlineTransform(action, data) ==
    IF action = "compress" THEN InlineCompressWith(data, JsonParse(data))
    ELSE DecompressJsonSync(data)

\* the worker's compress branch, the payload parsed
WorkerCompressWith(originalData, jsonObject) ==
    IF ~jsonObject.ok THEN Thrown(SyntaxError(originalData))
    ELSE Returned(CompressToBase64(JsonStringify(jsonObject.v)))

\* the worker's decompress branch, the decoder having answered
WorkerDecompressWith(decompressedString) ==
    IF decompressedString.kind = "throw" THEN Thrown(TypeErrorCharAt)
    ELSE IF decompressedString.kind = "null"
         THEN Thrown(Reason("Decompression failed: Returned null/undefined."))
    ELSE FormatParsed(decompressedString.s, JsonParse(decompressedString.s))

\* the body of the try block of the worker's message listener
WorkerTransform(action, data) ==
    IF action = "compress" THEN WorkerCompressWith(data, JsonParse(data))
    ELSE IF action = "decompress" THEN WorkerDecompressWith(DecompressFromBase64(data))
    ELSE Thrown(Reason("Invalid action provided."))

\* the message posted: {success: true, result} or
\* {success: false, error: error.message || 'Worker processing failed.'}
ResponseOf(r) ==
    IF r.ok THEN [success |-> TRUE, result |-> r.text, error |-> NoReason]
    ELSE [success |-> FALSE, result |-> <<>>,
          error |-> MessageOr(r.error, "Worker processing failed.")]

\* what the listener posts for a request
WorkerResponse(action, data) == ResponseOf(WorkerTransform(action, data))

(***************************************************************************)
(* CompressionService.analyzeData(input)                                   *)
(***************************************************************************)

\* a variant of step 2: any truthy decode counts, parsed or not
AnalyzeDecodedUnparsed(decompressed) ==
    IF decompressed.kind = "text" /\ decompressed.s # <<>> THEN "compressed"
    ELSE "unknown"

\* 2. "Check for Compressed String": a truthy decode whose text parses; a
\* throw of the decoder or of the parser is caught
AnalyzeDecoded(decompressed) ==
    IF decompressed.kind = "text" /\ decompressed.s # <<>>
       /\ JsonParse(decompressed.s).ok
    THEN "compressed"
    ELSE "unknown"

\* a variant of step 1: any value that parses counts, composite or not
AnalyzeParsedAnyValue(trimmedInput, parsed) ==
    IF parsed.ok THEN "json"
    ELSE AnalyzeDecoded(DecompressFromBase64(trimmedInput))

\* 1. "Check for Valid JSON": an object or an array
AnalyzeParsed(trimmedInput, parsed) ==
    IF parsed.ok /\ IsComposite(parsed.v) THEN "json"
    ELSE AnalyzeDecoded(DecompressFromBase64(trimmedInput))

AnalyzeTrimmed(trimmedInput) ==
    IF trimmedInput = <<>> THEN "unknown"
    ELSE AnalyzeParsed(trimmedInput, JsonParse(trimmedInput))

AnalyzeData(input) == AnalyzeTrimmed(Trim(input))

(***************************************************************************)
(* Input domains                                                           *)
(***************************************************************************)

\* the longest text of the text domain
MaxLen == 3
\* the most items of a generated array, and members of a generated object
MaxItems == 2
\* the most calls of processDataAsync in one behaviour
MaxCalls == 2

\* the most dispatches of handleAction in one behaviour of the component
MaxActions == 1

\* the file reads and clipboard tasks a component waits for at a time
MaxEvents == 1

\* [ ] " x 0 Q p and the space
Alphabet == {91, 93, 34, 120, 48, 81, 112, 32}

\* every text of at most MaxLen characters over the alphabet
Texts == UNION {[1..k -> Alphabet] : k \in 0..MaxLen}

\* the leaves of the generated documents: null, true, 0, -1.5, "", a string
\* that needs escapes ('"', line feed, 'x'), [] and {}
Leaves ==
    {JNull, JBool(TRUE), JZero, JNumber(TRUE, <<1, 5>>, 1),
     JStr(<<>>), JStr(<<34, 10, 120>>), JArr(<<>>), JObj(<<>>, <<>>)}

\* the keys of the generated objects: "a" and the array index "1"
DocKeys == {<<97>>, <<49>>}

\* the object built by creating the members in the order given
RECURSIVE BuildObject(_, _, _)
BuildObject(keys, items, obj) ==
    IF keys = <<>> THEN obj
    ELSE BuildObject(Tail(keys), Tail(items), SetMember(obj, Head(keys), Head(items)))

\* the composite values: arrays, and objects, of at most MaxItems leaves
Composites ==
    UNION {{JArr(items) : items \in [1..k -> Leaves]} : k \in 0..MaxItems}
    \cup UNION {{BuildObject(keys, items, JObj(<<>>, <<>>)) :
                    keys \in [1..k -> DocKeys], items \in [1..k -> Leaves]} : k \in 0..MaxItems}

\* serialize(v): the compact and the indented text of every composite value
Documents ==
    {JsonStringify(v) : v \in Composites} \cup {JsonStringifyPretty(v) : v \in Composites}

\* the payloads the concurrent specification draws from: the document "[0]"
\* and a text that is no document and decodes to null ('"xx')
Samples == {<<91, 48, 93>>, <<34, 120, 120>>}

(***************************************************************************)
(* State                                                                   *)
(***************************************************************************)

VARIABLES
    workerSupported,  \* typeof Worker !== 'undefined' in this host
    pool,             \* the texts the caller has at hand
    sequential,       \* the caller awaits each call before the next
    calls,            \* the calls of processDataAsync, in call order
    workers,          \* the workers created, in creation order
    timers,           \* the calls whose setTimeout callback is scheduled
    inbox,            \* for each worker, the requests posted to it and not handled
    probe,            \* the text handed to analyzeData
    tag,              \* what analyzeData returned for it, "none" before
    app,              \* the fields of AppComponent
    awaits,           \* the calls a handleAction awaits and has not resumed from
    events            \* the file reads and clipboard tasks the component waits for

vars == <<workerSupported, pool, sequential, calls, workers, timers, inbox, probe, tag,
          app, awaits, events>>

\* the state of the component
component == <<app, awaits, events>>

Actions == {"compress", "decompress"}

\* a promise is pending, or settled as fulfilled with a value or rejected
\* with a reason; resolve and reject do nothing to a settled promise
Resolve(call, value) ==
    IF call.state = "pending"
    THEN [call EXCEPT !.state = "fulfilled", !.value = value]
    ELSE call

\* a variant of reject: a settled promise is settled again
RejectSettled(call, reason) == [call EXCEPT !.state = "rejected", !.reason = reason]

Reject(call, reason) ==
    IF call.state = "pending"
    THEN [call EXCEPT !.state = "rejected", !.reason = reason]
    ELSE call

NewCall(action, data, useWorker) ==
    [action |-> action, data |-> data, useWorker |-> useWorker,
     state |-> "pending", value |-> <<>>, reason |-> NoReason,
     worker |-> 0,         \* the worker this call created, 0 for none
     ran |-> 0,            \* how often a transform ran for this call
     transport |-> FALSE]  \* the worker's error event was handled

\* a variant of the worker's creation: every worker reports to the first call
NewWorkerShared(owner) ==
    [owner |-> 1, alive |-> TRUE, outbox |-> <<>>, posted |-> 0,
     failed |-> FALSE, errorEvent |-> FALSE]

\* new Worker(...), of the call owner
NewWorker(owner) ==
    [owner |-> owner,
     alive |-> TRUE,        \* not terminated
     outbox |-> <<>>,       \* the responses posted by the worker, not delivered
     posted |-> 0,          \* how many requests were sent to it
     failed |-> FALSE,      \* the host raised an error on it
     errorEvent |-> FALSE]  \* an error event awaits worker.onerror

\* worker.postMessage({ action, data }), as the worker object records it
PostMessage(worker) == [worker EXCEPT !.posted = worker.posted + 1]

\* a variant of terminate: the worker is left running
LeaveRunning(worker) == worker

\* worker.terminate(): the worker stops; the responses not yet delivered
\* are dropped
Terminate(worker) == [worker EXCEPT !.alive = FALSE, !.outbox = <<>>]

\* worker.terminate(): the requests the worker has not handled are dropped
Discard(w) == [inbox EXCEPT ![w] = <<>>]

Settled(c) == calls[c].state # "pending"
AllSettled == \A c \in 1..Len(calls) : Settled(c)

\* the texts a caller can pass: the pool and every result received so far
Inputs == pool \cup {calls[c].value : c \in {d \in 1..Len(calls) : calls[d].state = "fulfilled"}}

\* the fixed pieces of a status line; file names and measured times are left out
Status(pieces) == pieces

\* the field initialisers of AppComponent; null is NoReason
NewComponent ==
    [dataInput |-> <<>>, dataType |-> "unknown", isLoading |-> FALSE,
     useWebWorker |-> TRUE, resultData |-> <<>>, resultTitle |-> "",
     statusMessage |-> Status(<<"Paste or drop data to begin.">>),
     errorMessage |-> NoReason, originalSize |-> 0, resultSize |-> 0]

(***************************************************************************)
(* Operations                                                              *)
(***************************************************************************)

\* try { resolve(...) } catch (e) { reject(e.message || '...') }
SettleInline(call, r) ==
    IF r.ok THEN Resolve(call, r.text)
    ELSE Reject(call, MessageOr(r.error, "Synchronous processing failed."))

\* a variant of processDataAsync: the inline transform runs within the call
ProcessDataAsyncInline(action, data, useWorker) ==
    /\ Len(calls) < MaxCalls
    /\ sequential => AllSettled
    /\ IF ~useWorker
       THEN /\ calls' = Append(calls,
                    SettleInline([NewCall(action, data, useWorker) EXCEPT !.ran = 1],
                                 InlineTransform(action, data)))
            /\ UNCHANGED <<workers, inbox, timers>>
       ELSE IF workerSupported
       THEN /\ calls' = Append(calls,
                    [NewCall(action, data, useWorker) EXCEPT !.worker = Len(workers) + 1])
            /\ workers' = Append(workers, PostMessage(NewWorker(Len(calls) + 1)))
            /\ inbox' = Append(inbox, <<[action |-> action, data |-> data]>>)
            /\ timers' = timers
       ELSE /\ calls' = Append(calls,
                    Reject(NewCall(action, data, useWorker),
                           Reason("Web Workers are not supported in this environment.")))
            /\ UNCHANGED <<workers, inbox, timers>>
    /\ UNCHANGED <<workerSupported, pool, sequential, probe, tag>>

\* a variant of processDataAsync: without Worker support the transform is
\* scheduled inline
ProcessDataAsyncFallback(action, data, useWorker) ==
    /\ Len(calls) < MaxCalls
    /\ sequential => AllSettled
    /\ IF ~useWorker \/ ~workerSupported
       THEN /\ calls' = Append(calls, NewCall(action, data, useWorker))
            /\ timers' = timers \cup {Len(calls) + 1}
            /\ UNCHANGED <<workers, inbox>>
       ELSE /\ calls' = Append(calls,
                    [NewCall(action, data, useWorker) EXCEPT !.worker = Len(workers) + 1])
            /\ workers' = Append(workers, PostMessage(NewWorker(Len(calls) + 1)))
            /\ inbox' = Append(inbox, <<[action |-> action, data |-> data]>>)
            /\ timers' = timers
    /\ UNCHANGED <<workerSupported, pool, sequential, probe, tag>>

\* processDataAsync(action, data, useWorker), up to its return
ProcessDataAsync(action, data, useWorker) ==
    /\ Len(calls) < MaxCalls
    /\ sequential => AllSettled
    /\ IF ~useWorker
       THEN /\ calls' = Append(calls, NewCall(action, data, useWorker))
            /\ timers' = timers \cup {Len(calls) + 1}
            /\ UNCHANGED <<workers, inbox>>
       ELSE IF workerSupported
       THEN /\ calls' = Append(calls,
                    [NewCall(action, data, useWorker) EXCEPT !.worker = Len(workers) + 1])
            /\ workers' = Append(workers, PostMessage(NewWorker(Len(calls) + 1)))
            /\ inbox' = Append(inbox, <<[action |-> action, data |-> data]>>)
            /\ timers' = timers
       ELSE /\ calls' = Append(calls,
                    Reject(NewCall(action, data, useWorker),
                           Reason("Web Workers are not supported in this environment.")))
            /\ UNCHANGED <<workers, inbox, timers>>
    /\ UNCHANGED <<workerSupported, pool, sequential, probe, tag>>

Call ==
    /\ \E action \in Actions, data \in Inputs, useWorker \in BOOLEAN :
        ProcessDataAsync(action, data, useWorker)
    /\ UNCHANGED component

\* the setTimeout(..., 0) callback of the inline branch
TimerFires(c) ==
    /\ c \in timers
    /\ timers' = timers \ {c}
    /\ calls' = [calls EXCEPT ![c] =
           SettleInline([calls[c] EXCEPT !.ran = calls[c].ran + 1],
                        InlineTransform(calls[c].action, calls[c].data))]
    /\ UNCHANGED <<workerSupported, pool, sequential, workers, inbox, probe, tag, app, awaits, events>>

\* a variant of the listener: it has no catch block, and posts nothing when
\* the transform throws
HandleUncaught(worker, msg) ==
    IF WorkerTransform(msg.action, msg.data).ok
    THEN [worker EXCEPT !.outbox = Append(worker.outbox, WorkerResponse(msg.action, msg.data))]
    ELSE worker

\* a variant of the listener: the catch block posts the error and the
\* listener then posts a result as well
HandleTwice(worker, msg) ==
    IF WorkerTransform(msg.action, msg.data).ok
    THEN [worker EXCEPT !.outbox = Append(worker.outbox, WorkerResponse(msg.action, msg.data))]
    ELSE [worker EXCEPT !.outbox = worker.outbox
                            \o <<WorkerResponse(msg.action, msg.data), ResponseOf(Returned(<<>>))>>]

\* the listener handles the request msg and posts its response
Handle(worker, msg) ==
    [worker EXCEPT !.outbox = Append(worker.outbox, WorkerResponse(msg.action, msg.data))]

\* the worker's message listener, run for the oldest request posted to it
WorkerListener(w) ==
    /\ workers[w].alive /\ ~workers[w].failed
    /\ inbox[w] # <<>>
    /\ inbox' = [inbox EXCEPT ![w] = Tail(inbox[w])]
    /\ workers' = [workers EXCEPT ![w] = Handle(workers[w], Head(inbox[w]))]
    /\ calls' = [calls EXCEPT ![workers[w].owner].ran = @ + 1]
    /\ UNCHANGED <<workerSupported, pool, sequential, timers, probe, tag, app, awaits, events>>

\* if (workerResult.success) resolve(...) else reject(... || '...')
SettleMessage(call, workerResult) ==
    IF workerResult.success THEN Resolve(call, workerResult.result)
    ELSE Reject(call, MessageOr(workerResult.error, "Worker execution failed."))

\* worker.onmessage, for the oldest response the worker posted
OnMessage(w) ==
    /\ workers[w].outbox # <<>>
    /\ calls' = [calls EXCEPT ![workers[w].owner] =
           SettleMessage(calls[workers[w].owner], Head(workers[w].outbox))]
    /\ workers' = [workers EXCEPT ![w] = Terminate(workers[w])]
    /\ inbox' = Discard(w)
    /\ UNCHANGED <<workerSupported, pool, sequential, timers, probe, tag, app, awaits, events>>

\* the host raises an error event on a worker that is not terminated (its
\* script fails to load or to run): the worker handles nothing further
WorkerFails(w) ==
    /\ workers[w].alive /\ ~workers[w].failed
    /\ workers' = [workers EXCEPT ![w].failed = TRUE, ![w].errorEvent = TRUE]
    /\ UNCHANGED <<workerSupported, pool, sequential, calls, timers, inbox, probe, tag, app, awaits, events>>

\* reject('Worker error: Could not process data.')
SettleError(call) ==
    [Reject(call, Reason("Worker error: Could not process data.")) EXCEPT !.transport = TRUE]

\* worker.onerror
OnError(w) ==
    /\ workers[w].errorEvent
    /\ calls' = [calls EXCEPT ![workers[w].owner] = SettleError(calls[workers[w].owner])]
    /\ workers' = [workers EXCEPT ![w] = [Terminate(workers[w]) EXCEPT !.errorEvent = FALSE]]
    /\ inbox' = Discard(w)
    /\ UNCHANGED <<workerSupported, pool, sequential, timers, probe, tag, app, awaits, events>>

\* CompressionService.analyzeData(probe)
Analyze ==
    /\ tag = "none"
    /\ tag' = AnalyzeData(probe)
    /\ UNCHANGED <<workerSupported, pool, sequential, calls, workers, timers, inbox, probe, app, awaits, events>>

(***************************************************************************)
(* Specifications                                                          *)
(***************************************************************************)

Idle ==
    /\ calls = <<>>
    /\ workers = <<>>
    /\ timers = {}
    /\ inbox = <<>>
    /\ tag = "none"
    /\ app = NewComponent
    /\ awaits = {}
    /\ events = <<>>

\* any number of calls in flight, over the sample payloads
Init ==
    /\ workerSupported \in BOOLEAN
    /\ pool = Samples
    /\ sequential = FALSE
    /\ probe = <<>>
    /\ Idle

Next ==
    \/ Call
    \/ \E c \in 1..Len(calls) : TimerFires(c)
    \/ \E w \in 1..Len(workers) : WorkerListener(w)
    \/ \E w \in 1..Len(workers) : OnMessage(w)
    \/ \E w \in 1..Len(workers) : WorkerFails(w)
    \/ \E w \in 1..Len(workers) : OnError(w)

Spec == Init /\ [][Next]_vars

\* the timer queue gives up a scheduled callback: what a step of TimerFires
\* does to timers
TimerTurn == \E c \in timers : timers' = timers \ {c}

\* a running worker takes the oldest request posted to it: what a step of
\* WorkerListener does to inbox
ListenerTurn ==
    \E w \in 1..Len(workers) :
        /\ workers[w].alive /\ ~workers[w].failed
        /\ inbox[w] # <<>>
        /\ inbox' = [inbox EXCEPT ![w] = Tail(inbox[w])]

\* the main thread handles a message or an error event of a worker
EventTurn ==
    \/ \E w \in 1..Len(workers) : OnMessage(w)
    \/ \E w \in 1..Len(workers) : OnError(w)

\* an event loop that has a task to run runs one: the main thread its timer
\* callbacks and the events of its workers, a worker its message listener
Fairness ==
    /\ WF_timers(TimerTurn)
    /\ WF_inbox(ListenerTurn)
    /\ WF_vars(EventTurn)

FairSpec == Spec /\ Fairness

\* one caller that awaits each call, over one text of the text domain or
\* one document, in a host with workers
InitSession ==
    /\ workerSupported = TRUE
    /\ \E p \in Texts \cup Documents : pool = {p}
    /\ sequential = TRUE
    /\ probe = <<>>
    /\ Idle

SessionSpec == InitSession /\ [][Next]_vars

\* analyzeData applied to every text of the text domain
InitClassify ==
    /\ workerSupported = TRUE
    /\ pool = {}
    /\ sequential = TRUE
    /\ probe \in Texts
    /\ Idle

NextClassify == Analyze

ClassifySpec == InitClassify /\ [][NextClassify]_vars

\* what a message can carry as its action: the worker script handles any
\* message posted to it
RequestActions == Actions \cup {"invalid"}

\* the worker endpoint alone: one worker that was posted one request, for
\* every action and every text of the text domain or document
InitEndpoint ==
    /\ workerSupported = TRUE
    /\ pool = {}
    /\ sequential = TRUE
    /\ probe = <<>>
    /\ tag = "none"
    /\ timers = {}
    /\ app = NewComponent
    /\ awaits = {}
    /\ events = <<>>
    /\ \E action \in RequestActions, data \in Texts \cup Documents :
        /\ calls = <<[NewCall(action, data, TRUE) EXCEPT !.worker = 1]>>
        /\ workers = <<PostMessage(NewWorker(1))>>
        /\ inbox = <<<<[action |-> action, data |-> data]>>>>

NextEndpoint ==
    \/ \E w \in 1..Len(workers) : WorkerListener(w)
    \/ \E w \in 1..Len(workers) : OnMessage(w)
    \/ \E w \in 1..Len(workers) : WorkerFails(w)
    \/ \E w \in 1..Len(workers) : OnError(w)

EndpointSpec == InitEndpoint /\ [][NextEndpoint]_vars

(***************************************************************************)
(* AppComponent                                                            *)
(***************************************************************************)

RECURSIVE Utf8Length(_, _)

\* new TextEncoder().encode(str).length, from unit i on
Utf8Length(str, i) ==
    IF i > Len(str) THEN 0
    ELSE IF str[i] < 128 THEN 1 + Utf8Length(str, i + 1)
    ELSE IF str[i] < 2048 THEN 2 + Utf8Length(str, i + 1)
    ELSE IF IsLeadSurrogate(str[i]) /\ i < Len(str) /\ IsTrailSurrogate(str[i + 1])
    THEN 4 + Utf8Length(str, i + 2)
    ELSE 3 + Utf8Length(str, i + 1)

\* calculateByteSize(str)
CalculateByteSize(str) == IF str = <<>> THEN 0 ELSE Utf8Length(str, 1)

\* resetError()
ResetError(a) == [a EXCEPT !.errorMessage = NoReason]

\* resetOutput()
ResetOutput(a) ==
    ResetError([a EXCEPT !.resultData = <<>>, !.resultTitle = "", !.resultSize = 0])

\* the status line analyzeInput chooses for the trimmed input and its type
AnalyzeStatus(input, type) ==
    IF type = "compressed"
    THEN Status(<<"Data recognized as **LZ-Compressed String**. Ready to Decompress.">>)
    ELSE IF type = "json"
    THEN Status(<<"Data recognized as **Raw JSON Object**. Ready to Compress.">>)
    ELSE IF input # <<>>
    THEN Status(<<"Pasted data is not recognized as valid JSON or compressed format.">>)
    ELSE Status(<<"Paste or drop data to begin.">>)

\* analyzeInput(), input the trimmed dataInput
AnalyzeInputWith(a, input, type) ==
    [a EXCEPT !.dataType = type,
              !.statusMessage = AnalyzeStatus(input, type),
              !.originalSize = CalculateByteSize(input)]

AnalyzeTrimmedInput(a, input) == AnalyzeInputWith(a, input, AnalyzeData(input))

AnalyzeInput(a) == AnalyzeTrimmedInput(a, Trim(a.dataInput))

\* onDataChange()
OnDataChange(a) == AnalyzeInput(ResetOutput(a))

\* the user edits the text area: the binding writes dataInput and calls
\* onDataChange
Edit(text) ==
    /\ text # app.dataInput
    /\ app' = OnDataChange([app EXCEPT !.dataInput = text])
    /\ UNCHANGED <<workerSupported, pool, sequential, calls, workers, timers, inbox,
                   probe, tag, awaits, events>>

\* the user flips the mode switch: the binding writes useWebWorker and calls
\* onWorkerToggle()
OnWorkerToggle ==
    /\ app' = ResetError([app EXCEPT
           !.useWebWorker = ~app.useWebWorker,
           !.statusMessage = Status(<<"Processing mode set to **",
               IF ~app.useWebWorker THEN "Web Worker (Async)" ELSE "Main Thread (Sync)",
               "**.">>)])
    /\ UNCHANGED <<workerSupported, pool, sequential, calls, workers, timers, inbox,
                   probe, tag, awaits, events>>

\* a variant of the choice of action: only a recognized compressed input is
\* decompressed
ActionForRecognized(dataType) == IF dataType = "compressed" THEN "decompress" ELSE "compress"

\* const action = this.dataType === 'json' ? 'compress' : 'decompress'
ActionFor(dataType) == IF dataType = "json" THEN "compress" ELSE "decompress"

\* const originalInput = this.dataInput
OriginalInput(a) == a.dataInput

\* a variant of handleAction: the input is dispatched unchecked
HandleActionUnchecked ==
    /\ Len(calls) < MaxActions
    /\ ProcessDataAsync(ActionFor(app.dataType), OriginalInput(app), app.useWebWorker)
    /\ app' = [ResetError(app) EXCEPT !.isLoading = TRUE, !.resultData = <<>>]
    /\ awaits' = awaits \cup {Len(calls) + 1}
    /\ UNCHANGED events

\* handleAction(), up to its return or its await
HandleAction ==
    IF Trim(app.dataInput) = <<>>
    THEN /\ app' = [app EXCEPT !.errorMessage = Reason("Input cannot be empty.")]
         /\ UNCHANGED <<workerSupported, pool, sequential, calls, workers, timers, inbox,
                        probe, tag, awaits, events>>
    ELSE /\ Len(calls) < MaxActions
         /\ ProcessDataAsync(ActionFor(app.dataType), OriginalInput(app), app.useWebWorker)
         /\ app' = [ResetError(app) EXCEPT !.isLoading = TRUE, !.resultData = <<>>]
         /\ awaits' = awaits \cup {Len(calls) + 1}
         /\ UNCHANGED events

\* e.message of a rejection reason: the service rejects with strings, and a
\* string has no message property
MessageOfString(e) == NoReason

\* the try block of handleAction after the await
ShowResult(a, action, result) ==
    [a EXCEPT !.resultData = result,
              !.resultTitle = IF action = "compress" THEN "Compressed String (Base64)"
                              ELSE "Decompressed JSON Object",
              !.resultSize = CalculateByteSize(result),
              !.statusMessage = Status(<<
                  IF action = "compress" THEN "Compression" ELSE "Decompression",
                  " successful! Time taken: **", " ms** (Mode: ",
                  IF a.useWebWorker THEN "Worker" ELSE "Sync", ").">>)]

\* the catch block of handleAction
ShowFailure(a, e) ==
    ResetOutput([a EXCEPT !.errorMessage =
        MessageOr(MessageOfString(e), "An unexpected error occurred during processing.")])

\* a variant of the finally block of handleAction: isLoading is left as it is
FinallyKept(a) == a

\* the finally block of handleAction
Finally(a) == [a EXCEPT !.isLoading = FALSE]

\* a handleAction has a continuation to run: the call it awaits is settled
Resumable == \E c \in awaits : Settled(c)

\* handleAction, from its await to its end
Resume(c) ==
    /\ c \in awaits
    /\ Settled(c)
    /\ awaits' = awaits \ {c}
    /\ app' = IF calls[c].state = "fulfilled"
              THEN Finally(ShowResult(app, calls[c].action, calls[c].value))
              ELSE Finally(ShowFailure(app, calls[c].reason))
    /\ UNCHANGED <<workerSupported, pool, sequential, calls, workers, timers, inbox,
                   probe, tag, events>>

\* the sequence without its element i
Without(seq, i) == SubSeq(seq, 1, i - 1) \o SubSeq(seq, i + 1, Len(seq))

\* readFileContent(file), up to reader.readAsText(file)
ReadFileContent(content) ==
    /\ Len(events) < MaxEvents
    /\ app' = [ResetError(app) EXCEPT !.statusMessage = Status(<<"Reading file: ", "...">>),
                                      !.isLoading = TRUE]
    /\ events' = Append(events, [kind |-> "read", text |-> content])
    /\ UNCHANGED <<workerSupported, pool, sequential, calls, workers, timers, inbox,
                   probe, tag, awaits>>

\* onDrop(event) and handleFileInputChange(event), of a file of any content
OnDrop == \E content \in pool : ReadFileContent(content)

\* reader.onload
ReaderOnLoad(i) ==
    /\ events[i].kind = "read"
    /\ app' = [AnalyzeInput([app EXCEPT !.dataInput = events[i].text]) EXCEPT !.isLoading = FALSE]
    /\ events' = Without(events, i)
    /\ UNCHANGED <<workerSupported, pool, sequential, calls, workers, timers, inbox,
                   probe, tag, awaits>>

\* reader.onerror
ReaderOnError(i) ==
    /\ events[i].kind = "read"
    /\ app' = [app EXCEPT !.errorMessage = Reason("Error reading file."), !.isLoading = FALSE]
    /\ events' = Without(events, i)
    /\ UNCHANGED <<workerSupported, pool, sequential, calls, workers, timers, inbox,
                   probe, tag, awaits>>

\* copyToClipboard(), up to its return
CopyToClipboard ==
    /\ Len(events) < MaxEvents
    /\ app' = [app EXCEPT !.isLoading = TRUE]
    /\ events' = Append(events, [kind |-> "write", text |-> app.resultData])
    /\ UNCHANGED <<workerSupported, pool, sequential, calls, workers, timers, inbox,
                   probe, tag, awaits>>

\* the then callback of writeText: it schedules the timer of one second
ClipboardWritten(i) ==
    /\ events[i].kind = "write"
    /\ app' = [app EXCEPT !.statusMessage = Status(<<"Result successfully copied to clipboard! ">>)]
    /\ events' = [events EXCEPT ![i] = [kind |-> "timer", text |-> <<>>]]
    /\ UNCHANGED <<workerSupported, pool, sequential, calls, workers, timers, inbox,
                   probe, tag, awaits>>

\* the setTimeout(..., 1000) callback of copyToClipboard
ClipboardTimer(i) ==
    /\ events[i].kind = "timer"
    /\ app' = AnalyzeInput([app EXCEPT !.isLoading = FALSE])
    /\ events' = Without(events, i)
    /\ UNCHANGED <<workerSupported, pool, sequential, calls, workers, timers, inbox,
                   probe, tag, awaits>>

\* the catch callback of writeText
ClipboardDenied(i) ==
    /\ events[i].kind = "write"
    /\ app' = [app EXCEPT !.errorMessage = Reason("Could not copy text: "), !.isLoading = FALSE]
    /\ events' = Without(events, i)
    /\ UNCHANGED <<workerSupported, pool, sequential, calls, workers, timers, inbox,
                   probe, tag, awaits>>

\* downloadFile()
DownloadFile ==
    /\ app' = [ResetError(app) EXCEPT !.statusMessage = Status(<<"File '",
                   IF app.dataType = "json" THEN "compressed-data.txt"
                   ELSE "decompressed-data.json",
                   "' downloaded successfully! ">>)]
    /\ UNCHANGED <<workerSupported, pool, sequential, calls, workers, timers, inbox,
                   probe, tag, awaits, events>>

\* the texts the user has at hand: blank, an array, a quoted string that is
\* recognized as compressed, the same after a blank, an unrecognized text
AppInputs == {<<32>>, <<91, 48, 93>>, <<34, 120, 34>>, <<32, 34, 120, 34>>, <<34, 120, 120>>}

\* the component in a host, the user at its controls
InitApp ==
    /\ workerSupported \in BOOLEAN
    /\ pool = AppInputs
    /\ sequential = FALSE
    /\ probe = <<>>
    /\ Idle

\* the continuation of an await runs before the event loop takes its next
\* task: a user event, a timer callback, a worker's event, a file reader's
AppNext ==
    \/ \E c \in awaits : Resume(c)
    \/ ~Resumable /\ \E text \in pool \cup {<<>>} : Edit(text)
    \/ ~Resumable /\ OnWorkerToggle
    \/ ~Resumable /\ HandleAction
    \/ ~Resumable /\ OnDrop
    \/ ~Resumable /\ \E i \in 1..Len(events) : ReaderOnLoad(i)
    \/ ~Resumable /\ \E i \in 1..Len(events) : ReaderOnError(i)
    \/ ~Resumable /\ CopyToClipboard
    \/ ~Resumable /\ \E i \in 1..Len(events) : ClipboardWritten(i)
    \/ ~Resumable /\ \E i \in 1..Len(events) : ClipboardTimer(i)
    \/ ~Resumable /\ \E i \in 1..Len(events) : ClipboardDenied(i)
    \/ ~Resumable /\ DownloadFile
    \/ ~Resumable /\ \E c \in 1..Len(calls) : TimerFires(c)
    \/ \E w \in 1..Len(workers) : WorkerListener(w)
    \/ ~Resumable /\ \E w \in 1..Len(workers) : OnMessage(w)
    \/ \E w \in 1..Len(workers) : WorkerFails(w)
    \/ ~Resumable /\ \E w \in 1..Len(workers) : OnError(w)

AppSpec == InitApp /\ [][AppNext]_vars

\* a handleAction resumes from its await: what a step of Resume does to awaits
ResumeTurn == \E c \in awaits : Settled(c) /\ awaits' = awaits \ {c}

\* the event loops run their tasks, and the main thread runs the
\* continuation of a settled await
FairAppSpec == AppSpec /\ Fairness /\ WF_awaits(ResumeTurn)

(***************************************************************************)
(* Properties                                                              *)
(***************************************************************************)

CallIds == 1..Len(calls)

\* the call settled by the outcome of its transform: it is settled, and no
\* error event of its worker was handled
Transformed(c) == Settled(c) /\ ~calls[c].transport

\* the payload parses to an object or an array
ParsesToComposite(text) == JsonParse(text).ok /\ IsComposite(JsonParse(text).v)

\* the payload parses to a string, a number, a boolean or null
ParsesToScalar(text) == JsonParse(text).ok /\ ~IsComposite(JsonParse(text).v)

\* the decode step reports no result: null, or the empty text
NoResult(decoded) == decoded.kind = "null" \/ (decoded.kind = "text" /\ decoded.s = <<>>)

\* the decode step yields non-empty text that parses as a structured value
DecodesToJson(text) ==
    /\ DecompressFromBase64(text).kind = "text"
    /\ DecompressFromBase64(text).s # <<>>
    /\ JsonParse(DecompressFromBase64(text).s).ok

\* the reasons that report DecodeFailure, of the inline and of the worker path
DecodeFailure ==
    {Reason("Decompression returned no data or failed."),
     Reason("Decompression failed: Returned null/undefined.")}

SameResult(c, d) ==
    /\ calls[c].state = calls[d].state
    /\ calls[c].value = calls[d].value
    /\ calls[c].reason = calls[d].reason

\* C1: in a host with Worker support, an inline call and a worker call with
\* the same action and payload, both settled by their transform, have equal
\* results: the same output text, or the same reason string.
C1_ModeEquivalence ==
    \A c \in CallIds, d \in CallIds :
        (/\ workerSupported
         /\ ~calls[c].useWorker /\ calls[d].useWorker
         /\ calls[c].action = calls[d].action /\ calls[c].data = calls[d].data
         /\ Transformed(c) /\ Transformed(d))
        => SameResult(c, d)

\* an inline and a worker decompress of the same payload, whose decode is
\* null, are rejected with different reason strings
C1_ReasonsDiffer ==
    \E c \in CallIds, d \in CallIds :
        /\ ~calls[c].useWorker /\ calls[d].useWorker
        /\ calls[c].action = "decompress" /\ calls[d].action = "decompress"
        /\ calls[c].data = calls[d].data
        /\ DecompressFromBase64(calls[c].data).kind = "null"
        /\ calls[c].state = "rejected" /\ calls[d].state = "rejected"
        /\ ~calls[d].transport
        /\ calls[c].reason # calls[d].reason

\* C2: when a payload that parses to a composite value was compressed, and
\* the output was decompressed, in either mode each, the decompress succeeds
\* and its output parses to the value the payload parsed to.
C2_RoundTrip ==
    \A c \in CallIds, d \in CallIds :
        (/\ calls[c].action = "compress" /\ calls[c].state = "fulfilled"
         /\ ParsesToComposite(calls[c].data)
         /\ calls[d].action = "decompress" /\ calls[d].data = calls[c].value
         /\ Transformed(d))
        => /\ calls[d].state = "fulfilled"
           /\ JsonParse(calls[d].value) = JsonParse(calls[c].data)

\* an object of two members, compressed inline and decompressed by a worker,
\* came back in another text
C2_RoundTripDone ==
    \E c \in CallIds, d \in CallIds :
        /\ calls[c].action = "compress" /\ calls[c].state = "fulfilled"
        /\ ~calls[c].useWorker
        /\ JsonParse(calls[c].data).ok
        /\ JsonParse(calls[c].data).v.t = "obj"
        /\ Len(JsonParse(calls[c].data).v.keys) = 2
        /\ calls[d].action = "decompress" /\ calls[d].data = calls[c].value
        /\ calls[d].useWorker /\ calls[d].state = "fulfilled"
        /\ calls[d].value # calls[c].data

\* C3: analyzeData returns 'compressed' for the output of every successful
\* compress of a payload that parses to a composite value.
C3_CompressedIsRecognized ==
    \A c \in CallIds :
        (/\ calls[c].action = "compress" /\ calls[c].state = "fulfilled"
         /\ ParsesToComposite(calls[c].data))
        => AnalyzeData(calls[c].value) = "compressed"

\* a document analyzeData calls 'json' was compressed by a worker, and the
\* output is one analyzeData calls 'compressed'
C3_OutputAnalyzed ==
    \E c \in CallIds :
        /\ calls[c].action = "compress" /\ calls[c].state = "fulfilled"
        /\ calls[c].useWorker
        /\ Len(calls[c].data) > MaxLen
        /\ AnalyzeData(calls[c].data) = "json"
        /\ AnalyzeData(calls[c].value) = "compressed"

FirstMatch(trimmed) ==
    IF trimmed = <<>> THEN "unknown"
    ELSE IF ParsesToComposite(trimmed) THEN "json"
    ELSE IF DecodesToJson(trimmed) THEN "compressed"
    ELSE "unknown"

\* C5: analyzeData returns, for every input, the first match of the ordered
\* reference applied to the trimmed input.
C5_AnalyzeIsFirstMatch ==
    tag # "none" => tag = FirstMatch(Trim(probe))

\* a text that decodes to non-empty text that does not parse was analyzed
\* as 'unknown'
C5_DecodedButUnparsable ==
    /\ tag = "unknown"
    /\ DecompressFromBase64(Trim(probe)).kind = "text"
    /\ DecompressFromBase64(Trim(probe)).s # <<>>
    /\ ~JsonParse(DecompressFromBase64(Trim(probe)).s).ok

\* C6: a decompress whose decode step reports no result, null or the empty
\* text, is rejected with the DecodeFailure reason, in either mode.
C6_NoResultIsDecodeFailure ==
    \A c \in CallIds :
        (/\ calls[c].action = "decompress"
         /\ Transformed(c)
         /\ NoResult(DecompressFromBase64(calls[c].data)))
        => /\ calls[c].state = "rejected"
           /\ calls[c].reason \in DecodeFailure

\* a decompress whose decode is the empty text was rejected with the
\* parser's SyntaxError for the empty text
C6_EmptyDecodeParsed ==
    \E c \in CallIds :
        /\ calls[c].action = "decompress"
        /\ DecompressFromBase64(calls[c].data) = DecodedText(<<>>)
        /\ calls[c].state = "rejected"
        /\ calls[c].reason = SyntaxError(<<>>)

\* C7: a compress settled by its transform is rejected exactly when its
\* payload does not parse, and two successful compresses of the same payload
\* have the same output, in either mode each.
C7_CompressFailsIffUnparsable ==
    /\ \A c \in CallIds :
        (calls[c].action = "compress" /\ Transformed(c))
        => (calls[c].state = "rejected" <=> ~JsonParse(calls[c].data).ok)
    /\ \A c \in CallIds, d \in CallIds :
        (/\ calls[c].action = "compress" /\ calls[d].action = "compress"
         /\ calls[c].data = calls[d].data
         /\ calls[c].state = "fulfilled" /\ calls[d].state = "fulfilled")
        => calls[c].value = calls[d].value

\* a payload that does not parse was rejected by an inline compress and by a
\* worker compress
C7_UnparsableRejected ==
    \E c \in CallIds, d \in CallIds :
        /\ calls[c].action = "compress" /\ calls[d].action = "compress"
        /\ calls[c].data = calls[d].data
        /\ ~JsonParse(calls[c].data).ok
        /\ ~calls[c].useWorker /\ calls[d].useWorker
        /\ calls[c].state = "rejected"
        /\ calls[d].state = "rejected" /\ ~calls[d].transport

\* a settled call holds a value or a reason, never both
OneVariant(call) ==
    CASE call.state = "pending" -> call.value = <<>> /\ call.reason = NoReason
      [] call.state = "fulfilled" -> call.reason = NoReason
      [] call.state = "rejected" -> call.value = <<>> /\ call.reason # NoReason

\* no step changes the result of a settled call
StaysSettled ==
    \A c \in CallIds :
        Settled(c) =>
            /\ calls'[c].state = calls[c].state
            /\ calls'[c].value = calls[c].value
            /\ calls'[c].reason = calls[c].reason

\* C8: every call holds one variant, and once settled its result never
\* changes, whatever the order of the worker's message and error events.
C8_SettlesOnce ==
    /\ [](\A c \in CallIds : OneVariant(calls[c]))
    /\ [][StaysSettled]_vars

\* worker.onerror ran after worker.onmessage had fulfilled the call
C8_ErrorAfterMessage ==
    \E c \in CallIds :
        /\ calls[c].state = "fulfilled"
        /\ calls[c].transport

\* C9: every call made is eventually settled.
C9_EventuallySettles ==
    \A c \in 1..MaxCalls :
        (c <= Len(calls)) ~> (c <= Len(calls) /\ calls[c].state # "pending")

\* every call was made and is settled: one rejected for the worker's error
\* event, one rejected by the transform of its worker
C9_FailuresSettled ==
    /\ Len(calls) = MaxCalls
    /\ AllSettled
    /\ \E c \in CallIds :
        calls[c].transport /\ calls[c].reason = Reason("Worker error: Could not process data.")
    /\ \E c \in CallIds :
        calls[c].useWorker /\ ~calls[c].transport /\ calls[c].state = "rejected"

\* the workers the call created
WorkersOf(c) == {w \in 1..Len(workers) : workers[w].owner = c}

\* C10: in a host with Worker support a call with useWorker creates exactly
\* one worker, which no other call owns, and sends it exactly one request;
\* the worker is terminated exactly when the call is settled. A call that
\* does not reach the worker branch creates no worker.
C10_WorkerDiscipline ==
    \A c \in CallIds :
        IF calls[c].useWorker /\ workerSupported
        THEN /\ WorkersOf(c) = {calls[c].worker}
             /\ workers[calls[c].worker].posted = 1
             /\ workers[calls[c].worker].alive <=> ~Settled(c)
        ELSE /\ WorkersOf(c) = {}
             /\ calls[c].worker = 0

\* two worker calls in flight together, each with its own worker: one is
\* settled and its worker terminated, the other's worker is still running
C10_TwoWorkers ==
    \E c \in CallIds, d \in CallIds :
        /\ calls[c].useWorker /\ calls[d].useWorker
        /\ calls[c].worker # calls[d].worker
        /\ Settled(c) /\ ~workers[calls[c].worker].alive
        /\ ~Settled(d) /\ workers[calls[d].worker].alive

\* C11: a call with useWorker in a host without Worker support is rejected
\* with the reason that says so; no transform runs for it, inline or in a
\* worker, and it holds no value.
C11_UnsupportedIsRejected ==
    \A c \in CallIds :
        (calls[c].useWorker /\ ~workerSupported)
        => /\ calls[c].state = "rejected"
           /\ calls[c].reason = Reason("Web Workers are not supported in this environment.")
           /\ calls[c].value = <<>>
           /\ calls[c].ran = 0
           /\ c \notin timers
           /\ WorkersOf(c) = {}

\* in a host without Worker support, a call with useWorker stands rejected
\* beside an inline call whose transform has run
C11_RejectedBesideInline ==
    \E c \in CallIds, d \in CallIds :
        /\ ~workerSupported
        /\ calls[c].useWorker /\ calls[c].state = "rejected"
        /\ ~calls[d].useWorker /\ calls[d].ran = 1

\* the responses a running worker has posted
Responses(w) == {workers[w].outbox[i] : i \in 1..Len(workers[w].outbox)}

\* C15: a running worker has posted one response for every request it has
\* handled; the response carries success and a result when the transform of
\* the request returned, and no success and an error when it threw, as it
\* does for an action that is neither compress nor decompress.
C15_OneResponsePerRequest ==
    \A w \in 1..Len(workers) :
        workers[w].alive =>
            /\ Len(workers[w].outbox) = workers[w].posted - Len(inbox[w])
            /\ Len(workers[w].outbox) = calls[workers[w].owner].ran
            /\ \A r \in Responses(w) :
                /\ r.success <=> WorkerTransform(calls[workers[w].owner].action,
                                                 calls[workers[w].owner].data).ok
                /\ r.success => r.error = NoReason
                /\ ~r.success => r.result = <<>> /\ r.error # NoReason
                /\ calls[workers[w].owner].action \notin Actions
                   => r.error = Reason("Invalid action provided.")

\* the worker has answered a request whose action is neither compress nor
\* decompress with one response, an error
C15_InvalidActionAnswered ==
    \E w \in 1..Len(workers) :
        /\ calls[workers[w].owner].action \notin Actions
        /\ inbox[w] = <<>>
        /\ Len(workers[w].outbox) = 1
        /\ ~workers[w].outbox[1].success

\* the result fields of a call
ResultOf(call) == <<call.state, call.value, call.reason>>

\* what the call's own action and payload settle a call to
OwnResult(call) ==
    IF ~call.useWorker
    THEN ResultOf(SettleInline(NewCall(call.action, call.data, call.useWorker),
                               InlineTransform(call.action, call.data)))
    ELSE ResultOf(SettleMessage(NewCall(call.action, call.data, call.useWorker),
                                WorkerResponse(call.action, call.data)))

\* what a failure of the call's dispatch or of its own worker settles it to
OwnFailure(call) ==
    IF ~workerSupported
    THEN ResultOf(Reject(call, Reason("Web Workers are not supported in this environment.")))
    ELSE ResultOf(Reject(call, Reason("Worker error: Could not process data.")))

\* C16: whatever calls are in flight together, a settled call holds the
\* result of its own action and payload, or the failure of its own dispatch
\* or worker.
C16_CallsAreIsolated ==
    \A c \in CallIds :
        Settled(c) =>
            \/ (~calls[c].useWorker \/ workerSupported)
               /\ ResultOf(calls[c]) = OwnResult(calls[c])
            \/ calls[c].useWorker /\ (calls[c].transport \/ ~workerSupported)
               /\ calls[c].state = "rejected"
               /\ ResultOf(calls[c]) = OwnFailure([calls[c] EXCEPT !.state = "pending"])

\* two worker calls with different requests: one is fulfilled while the
\* response to the other waits to be delivered
C16_TwoInFlight ==
    \E c \in CallIds, d \in CallIds :
        /\ calls[c].useWorker /\ calls[d].useWorker
        /\ <<calls[c].action, calls[c].data>> # <<calls[d].action, calls[d].data>>
        /\ calls[c].state = "fulfilled"
        /\ ~Settled(d) /\ workers[calls[d].worker].outbox # <<>>

\* a step dispatches a call: processDataAsync was called
Dispatched == Len(calls') = Len(calls) + 1

\* C12: when dataInput is empty or blank, handleAction sets the empty-input
\* error and nothing else: no call of processDataAsync, no timer, no worker,
\* no request, no await; isLoading and resultData stay as they were.
C12_EmptyInputIsRefused ==
    [][(HandleAction /\ Trim(app.dataInput) = <<>>)
       => /\ app'.errorMessage = Reason("Input cannot be empty.")
          /\ calls' = calls
          /\ workers' = workers
          /\ timers' = timers
          /\ inbox' = inbox
          /\ awaits' = awaits
          /\ app'.isLoading = app.isLoading
          /\ app'.resultData = app.resultData]_vars

\* the empty-input error is shown for a blank input and no call was made
C12_EmptyInputReported ==
    /\ app.dataInput = <<32>>
    /\ app.errorMessage = Reason("Input cannot be empty.")
    /\ calls = <<>>
    /\ workers = <<>>

\* C13: when a handleAction resumes from a rejected call, it leaves a
\* non-empty errorMessage and an empty resultData.
C13_FailureIsReported ==
    [][\A c \in awaits :
        (Resume(c) /\ calls[c].state = "rejected")
        => /\ app'.errorMessage # NoReason
           /\ app'.resultData = <<>>]_vars

\* a handleAction has finished on a rejected call, and the component shows
\* neither an error nor a result
C13_FailureShowsNothing ==
    \E c \in CallIds :
        /\ calls[c].state = "rejected"
        /\ c \notin awaits
        /\ ~app.isLoading
        /\ app.errorMessage = NoReason
        /\ app.resultData = <<>>
        /\ app.dataInput = calls[c].data

\* C14: the step that dispatches an inline call runs no transform: the call
\* is pending with its timer scheduled, isLoading is true and resultData is
\* empty; the transform of an inline call runs once, in the step that
\* settles the call.
C14_InlineRunsLater ==
    [][/\ (Dispatched /\ ~calls'[Len(calls')].useWorker)
          => /\ calls'[Len(calls')].ran = 0
             /\ calls'[Len(calls')].state = "pending"
             /\ Len(calls') \in timers'
             /\ app'.isLoading
             /\ app'.resultData = <<>>
       /\ \A c \in CallIds :
          (~calls[c].useWorker /\ calls'[c].ran # calls[c].ran)
          => /\ calls[c].ran = 0 /\ calls[c].state = "pending"
             /\ calls'[c].ran = 1 /\ calls'[c].state # "pending"
             /\ c \notin timers']_vars

\* the component is loading with no result while its inline call waits for
\* its timer
C14_ProcessingObserved ==
    \E c \in awaits :
        /\ ~calls[c].useWorker
        /\ calls[c].state = "pending" /\ calls[c].ran = 0
        /\ c \in timers
        /\ app.isLoading
        /\ app.resultData = <<>>

\* what the transforms return for a text, trimmed or as it is
TransformsOf(text) ==
    {r.text : r \in {q \in {InlineTransform(action, data) :
                              action \in Actions, data \in {text, Trim(text)}} : q.ok}}

\* C17: a result that is shown is a transform of the current dataInput.
C17_OutputMatchesInput ==
    app.resultData # <<>> => app.resultData \in TransformsOf(app.dataInput)

\* with nothing in flight, the result of a call is shown beside an input
\* that is not the call's and that it is no transform of
C17_StaleResultShown ==
    \E c \in CallIds :
        /\ awaits = {} /\ events = <<>> /\ ~app.isLoading
        /\ calls[c].state = "fulfilled"
        /\ app.resultData = calls[c].value
        /\ Trim(app.dataInput) # Trim(calls[c].data)
        /\ app.resultData \notin TransformsOf(app.dataInput)

\* C18: the step that dispatches a call chooses the action from the
\* classification of the trimmed dataInput and sends the trimmed dataInput.
C18_PayloadIsClassifiedText ==
    [][Dispatched
       => /\ calls'[Len(calls')].action = (IF AnalyzeData(Trim(app.dataInput)) = "json"
                                           THEN "compress" ELSE "decompress")
          /\ calls'[Len(calls')].data = Trim(app.dataInput)]_vars

\* a call was sent a payload that begins with a blank, and what it settled to
\* is not what the trimmed payload settles a call to
C18_UntrimmedPayloadSent ==
    \E c \in CallIds :
        /\ calls[c].data # Trim(calls[c].data)
        /\ Settled(c) /\ ~calls[c].transport
        /\ ResultOf(calls[c]) # OwnResult([calls[c] EXCEPT !.data = Trim(calls[c].data)])

\* C19: handleAction on an input that is not blank dispatches a call:
\* compress when dataType is json, decompress for every other dataType.
C19_ActionFollowsDataType ==
    [][/\ Dispatched
          => calls'[Len(calls')].action = (IF app.dataType = "json"
                                           THEN "compress" ELSE "decompress")
       /\ (HandleAction /\ Trim(app.dataInput) # <<>>) => Dispatched]_vars

\* an input that is not blank and is classified unknown was dispatched as a
\* decompress request
C19_UnknownIsDispatched ==
    \E c \in CallIds :
        /\ Trim(calls[c].data) # <<>>
        /\ AnalyzeData(Trim(calls[c].data)) = "unknown"
        /\ calls[c].action = "decompress"

\* the handleAction dispatches of one behaviour
ActionIds == 1..MaxActions

\* C20: the step that dispatches a call sets isLoading; the handleAction
\* that awaits a call eventually resumes, it resumes once the call is
\* settled, and the step that resumes it clears isLoading.
C20_LoadingEnds ==
    /\ [][/\ Dispatched => app'.isLoading /\ Len(calls') \in awaits'
          /\ \A c \in awaits :
             c \notin awaits' => Settled(c) /\ ~app'.isLoading]_vars
    /\ \A c \in ActionIds : (c \in awaits) ~> (c \notin awaits /\ ~app.isLoading)

\* a handleAction has resumed from a call whose transform ran and failed,
\* and isLoading is false with nothing else in flight
C20_LoadingEndedOnFailure ==
    \E c \in CallIds :
        /\ c \notin awaits
        /\ calls[c].state = "rejected" /\ calls[c].ran = 1
        /\ ~app.isLoading
        /\ events = <<>>

====
